---- MODULE Spec2Model ----
(***************************************************************************)
(* The polling engine of the UltraOCR client (ultraocr/functions.py):      *)
(* wait_for_job_done, wait_for_batch_done and the transport and credential *)
(* code they run through (_get, _auto_authenticate, authenticate,          *)
(* validate_status_code).  Time is a discrete clock read by time.time()    *)
(* and datetime.now(); it advances while an HTTP call is in flight, while  *)
(* the client sleeps, and by a small step before a call is entered and     *)
(* before a loop condition is evaluated.  AuthSpec adds the calls that     *)
(* make one request (authenticate, generate_signed_url, get_batch_status,  *)
(* get_job_result); ClockSpec lets the system clock be set during a wait;  *)
(* LiveSpec lets the client's thread run to the end of its call.           *)
(***************************************************************************)
EXTENDS Integers, Sequences, FiniteSets, TLC

\* ------------------------------------------------------------- bounds
MaxTimeout == 2      \* Client(timeout=...) ranges over 0..MaxTimeout seconds
MaxLatency == 1      \* an HTTP call takes 0..MaxLatency seconds
MaxStep == 1         \* time that may pass before a call and before a loop condition
MaxJobs == 2         \* length of the batch's "jobs" list
MaxAuth == 2         \* authenticate is called on the client while fewer tokens were issued
MaxSkew == 1         \* the system clock is set, once, by at most this many seconds
MaxCaught == 2       \* a program goes on after a failed re-authentication until this time

\* ---------------------------------------------------- program constants
POOLING_INTERVAL == 1
DEFAULT_EXPIRATION_TIME == 60
STATUS_DONE == "done"
STATUS_ERROR == "error"
HTTP_OK == 200
HTTP_UNAUTHORIZED == 401
SecondsPerMinute == 60
ConstructedAt == 0
EmptyToken == 0

\* Python's None, and the JSON bodies of the two status endpoints.
Rec(kind, id, status, jobs) ==
    [kind |-> kind, id |-> id, status |-> status, jobs |-> jobs]

None == Rec("None", "", "", <<>>)

BATCH_ID == "123"
JOB_ID == "234"
JobStatuses == {"processing", "validating", "done", "error"}
BatchStatuses == {"processing", "done", "error"}
HttpCodes == {HTTP_OK, HTTP_UNAUTHORIZED}
Latencies == 0..MaxLatency
Steps == 0..MaxStep

\* The job ids of the server's batch, in the order the server lists them;
\* the status a batch record shows for a job is not read by the client.
JobKsuid(i) == IF i = 1 THEN "234" ELSE IF i = 2 THEN "235" ELSE "236"
EntryStatus(i) == IF i = 2 THEN "done" ELSE "processing"

\* The "jobs" lists of at most MaxJobs entries.
JobLists ==
    { [i \in 1..n |-> [job_ksuid |-> JobKsuid(i), status |-> EntryStatus(i)]]
      : n \in 0..MaxJobs }

VARIABLES
    now,            \* the clock: what time.time() and datetime.now() return
    token,          \* Client.token
    expires_at,     \* Client.expires_at
    auto_refresh,   \* Client.auto_refresh
    timeout,        \* Client.timeout
    interval,       \* Client.interval
    expires,        \* Client.expires (token_expires, minutes)
    srv_jobs,       \* the "jobs" list the server reports for the batch
    pc,             \* position of the running call
    call,           \* the call made on the client: its name and arguments
    b_start,        \* wait_for_batch_done: timeout_start
    b_res,          \* wait_for_batch_done: res
    idx,            \* wait_for_batch_done: position of the for loop in res["jobs"]
    j_args,         \* wait_for_job_done: batch_id, job_id and who called it
    j_start,        \* wait_for_job_done: timeout_start
    j_res,          \* wait_for_job_done: res
    t_cond,         \* the clock value the latest loop condition read
    outcome,        \* "running", "returned" or the exception raised to the caller
    result,         \* the value returned to the caller
    exc,            \* the arguments of the exception raised
    waited,         \* the job ids wait_for_batch_done started a wait for, in order
    log,            \* the requests and sleeps of the wait in progress, in order
    entered,        \* the elapsed time at which the wait in progress was entered
    skew,           \* what adjustments of the system clock have added to the clock
    facade,         \* the create_and_wait_* call in progress, or "none"
    sub,            \* the submission in progress: params, res and the slots to upload
    pages           \* get_jobs: jobs, params and has_next_page

client == <<token, expires_at>>
config == <<auto_refresh, timeout, interval, expires, srv_jobs>>
batch_frame == <<b_start, b_res, idx>>
job_frame == <<j_args, j_start, j_res>>
ending == <<outcome, result, exc>>
history == <<waited, log, entered>>
ops_frame == <<facade, sub, pages>>
vars == <<now, skew, ops_frame, client, config, pc, call, batch_frame, job_frame, t_cond, ending, history>>

NoCall == [op |-> "none", batch_id |-> "", job_id |-> "", wait_jobs |-> FALSE, expires |-> 0]
NoArgs == [batch_id |-> "", job_id |-> "", caller |-> "none"]
NoSub == [facematch |-> "", extra |-> "", res |-> None, todo |-> <<>>]
NoPages == [jobs |-> <<>>, token |-> "", has_next_page |-> FALSE]
NoExc == [timeout |-> 0, last_res |-> None, status |-> 0, expected |-> 0]

\* One entry of the log: a request (kind "GET" or "POST") with the time it was
\* issued, the clock value the loop condition before it read, the bearer token
\* it carried and the answer; or a sleep with its length.
NoAuth == -1
Ev(kind, url, at, checked, auth, http, body, secs) ==
    [kind |-> kind, url |-> url, at |-> at, checked |-> checked, auth |-> auth,
     http |-> http, body |-> body, secs |-> secs]

TokenUrl == <<"token">>
BatchStatusUrl(batch_id) == <<"ocr/batch/status", batch_id>>
JobResultUrl(batch_id, job_id) == <<"ocr/job/result", batch_id, job_id>>

Init ==
    /\ now = ConstructedAt
    /\ token = EmptyToken
    /\ expires_at = ConstructedAt
    /\ auto_refresh \in BOOLEAN
    /\ timeout \in 0..MaxTimeout
    /\ interval = POOLING_INTERVAL
    /\ expires \in IF auto_refresh THEN {0, DEFAULT_EXPIRATION_TIME}
                                   ELSE {DEFAULT_EXPIRATION_TIME}
    /\ srv_jobs \in JobLists
    /\ pc = "idle"
    /\ call = NoCall
    /\ b_start = 0
    /\ b_res = None
    /\ idx = 0
    /\ j_args = NoArgs
    /\ j_start = 0
    /\ j_res = None
    /\ t_cond = 0
    /\ outcome = "running"
    /\ result = None
    /\ exc = NoExc
    /\ waited = <<>>
    /\ log = <<>>
    /\ entered = 0
    /\ skew = 0
    /\ facade = "none"
    /\ sub = NoSub
    /\ pages = NoPages

\* ------------------------------------------------------------ transport

\* A validate_status_code that raises on no status at all.
validate_status_code_never_raises(status, want) == TRUE

\* helpers.validate_status_code: TRUE when it passes, FALSE when it raises
\* InvalidStatusCodeException(status, want).
validate_status_code(status, want) == status = want

\* An authenticate that counts the expiry from the moment the token request
\* is sent.
authenticate_expiry_from_request(t0, minutes) ==
    { [ok |-> validate_status_code(h, HTTP_OK),
       http |-> h,
       t |-> t0 + l,
       token |-> IF validate_status_code(h, HTTP_OK) THEN token + 1 ELSE token,
       expires_at |-> IF validate_status_code(h, HTTP_OK)
                      THEN t0 + minutes * SecondsPerMinute
                      ELSE expires_at,
       evs |-> <<Ev("POST", TokenUrl, t0, t_cond, NoAuth, h, None, 0)>>]
      : l \in Latencies, h \in HttpCodes }

\* An authenticate that forgets the stored token when the token request fails.
authenticate_forgets_on_failure(t0, minutes) ==
    { [ok |-> validate_status_code(h, HTTP_OK),
       http |-> h,
       t |-> t0 + l,
       token |-> IF validate_status_code(h, HTTP_OK) THEN token + 1 ELSE EmptyToken,
       expires_at |-> IF validate_status_code(h, HTTP_OK)
                      THEN (t0 + l) + minutes * SecondsPerMinute
                      ELSE expires_at,
       evs |-> <<Ev("POST", TokenUrl, t0, t_cond, NoAuth, h, None, 0)>>]
      : l \in Latencies, h \in HttpCodes }

\* An authenticate that, when the token request fails, puts the expiry off as
\* if a token had been issued.
authenticate_puts_off_on_failure(t0, minutes) ==
    { [ok |-> validate_status_code(h, HTTP_OK),
       http |-> h,
       t |-> t0 + l,
       token |-> IF validate_status_code(h, HTTP_OK) THEN token + 1 ELSE token,
       expires_at |-> (t0 + l) + minutes * SecondsPerMinute,
       evs |-> <<Ev("POST", TokenUrl, t0, t_cond, NoAuth, h, None, 0)>>]
      : l \in Latencies, h \in HttpCodes }

\* Client.authenticate, called at time t0 with `minutes` as expires: the
\* outcomes of the token POST.  Tokens are numbered in the order the server
\* issues them, so a new token differs from every token issued before it.
authenticate(t0, minutes) ==
    { [ok |-> validate_status_code(h, HTTP_OK),
       http |-> h,
       t |-> t0 + l,
       token |-> IF validate_status_code(h, HTTP_OK) THEN token + 1 ELSE token,
       expires_at |-> IF validate_status_code(h, HTTP_OK)
                      THEN (t0 + l) + minutes * SecondsPerMinute
                      ELSE expires_at,
       evs |-> <<Ev("POST", TokenUrl, t0, t_cond, NoAuth, h, None, 0)>>]
      : l \in Latencies, h \in HttpCodes }

\* A condition that already holds at the instant of expiry.
token_expired_at_expiry == auto_refresh /\ now >= expires_at

\* A condition that does not look at auto_refresh.
token_expired_without_auto_refresh == now > expires_at

\* Client._auto_authenticate: the condition under which it authenticates.
token_expired == auto_refresh /\ now > expires_at

\* Client._auto_authenticate: its outcomes.
auto_authenticate ==
    IF token_expired
    THEN authenticate(now, expires)
    ELSE { [ok |-> TRUE, http |-> HTTP_OK, t |-> now, token |-> token,
            expires_at |-> expires_at, evs |-> <<>>] }

\* Client._get followed by validate_status_code(resp.status_code, 200) and
\* resp.json(), as get_batch_status and get_job_result do: the outcomes.
\* bodies are the JSON bodies the server may answer with.
get(url, bodies) ==
    UNION { IF ~a.ok
            THEN { [raised |-> TRUE, status |-> a.http, t |-> a.t, token |-> a.token,
                    expires_at |-> a.expires_at, evs |-> a.evs, body |-> None] }
            ELSE { [raised |-> ~validate_status_code(h, HTTP_OK),
                    status |-> h,
                    t |-> a.t + l,
                    token |-> a.token,
                    expires_at |-> a.expires_at,
                    evs |-> Append(a.evs,
                              Ev("GET", url, a.t, t_cond, a.token, h,
                                 IF h = HTTP_OK THEN b ELSE None, 0)),
                    body |-> IF h = HTTP_OK THEN b ELSE None]
                   : l \in Latencies, h \in HttpCodes,
                     b \in bodies }
          : a \in auto_authenticate }

\* Client._post followed by validate_status_code(resp.status_code, 200) and
\* resp.json(), as generate_signed_url does: the outcomes.
post(url, bodies) ==
    UNION { IF ~a.ok
            THEN { [raised |-> TRUE, status |-> a.http, t |-> a.t, token |-> a.token,
                    expires_at |-> a.expires_at, evs |-> a.evs, body |-> None] }
            ELSE { [raised |-> ~validate_status_code(h, HTTP_OK),
                    status |-> h,
                    t |-> a.t + l,
                    token |-> a.token,
                    expires_at |-> a.expires_at,
                    evs |-> Append(a.evs,
                              Ev("POST", url, a.t, t_cond, a.token, h,
                                 IF h = HTTP_OK THEN b ELSE None, 0)),
                    body |-> IF h = HTTP_OK THEN b ELSE None]
                   : l \in Latencies, h \in HttpCodes,
                     b \in bodies }
          : a \in auto_authenticate }

JobBodies(job_id) == { Rec("job", job_id, s, <<>>) : s \in JobStatuses }
BatchBodies(batch_id) == { Rec("batch", batch_id, s, srv_jobs) : s \in BatchStatuses }

\* ------------------------------------------------------- polling engine

\* A status test that takes only "done" for terminal.
is_terminal_done_only(status) == status = STATUS_DONE

\* A status test that also takes "validating" for terminal.
is_terminal_validating_too(status) == status \in {STATUS_DONE, STATUS_ERROR, "validating"}

\* `status in [STATUS_DONE, STATUS_ERROR]`
is_terminal(status) == status \in {STATUS_DONE, STATUS_ERROR}

\* A loop condition that still polls when the clock is at the deadline.
while_cond_inclusive(t, timeout_start) == t <= timeout_start + timeout

\* `while time.time() < timeout_start + self.timeout`
while_cond(t, timeout_start) == t < timeout_start + timeout

\* A sleep cut to what is left of the timeout.
sleep_secs_until_deadline(t, timeout_start) ==
    IF t + interval <= timeout_start + timeout
    THEN interval
    ELSE IF t < timeout_start + timeout THEN (timeout_start + timeout) - t ELSE 0

\* `time.sleep(self.interval)`: the whole interval, whatever is left of the
\* timeout.
sleep_secs(t, timeout_start) == interval

\* `if time.time() > timeout_start + self.timeout`
timed_out(t, timeout_start) == t > timeout_start + timeout

Raise(name, e) ==
    /\ outcome' = name
    /\ exc' = e
    /\ pc' = "done"
    /\ UNCHANGED result

\* An error of a kind of its own.
RaiseAuthenticationFailure(status) ==
    Raise("AuthenticationFailure",
          [NoExc EXCEPT !.status = status, !.expected = HTTP_OK])

RaiseInvalidStatus(status) ==
    Raise("InvalidStatusCodeException",
          [NoExc EXCEPT !.status = status, !.expected = HTTP_OK])

RaiseTimeout(res) ==
    Raise("TimeoutException", [NoExc EXCEPT !.timeout = timeout, !.last_res = res])

Return(res) ==
    /\ outcome' = "returned"
    /\ result' = res
    /\ pc' = "done"
    /\ UNCHANGED exc

\* A wait_for_job_done whose deadline, when wait_for_batch_done calls it, runs
\* from the entry of wait_for_batch_done.
wait_for_job_done_start_shared_deadline(batch_id, job_id, caller, t) ==
    /\ j_args' = [batch_id |-> batch_id, job_id |-> job_id, caller |-> caller]
    /\ j_start' = IF caller = "batch" THEN b_start ELSE t
    /\ j_res' = None
    /\ log' = <<>>
    /\ entered' = t - skew
    /\ pc' = "j_while"

\* The first two statements of wait_for_job_done.
wait_for_job_done_start(batch_id, job_id, caller, t) ==
    /\ j_args' = [batch_id |-> batch_id, job_id |-> job_id, caller |-> caller]
    /\ j_start' = t
    /\ j_res' = None
    /\ log' = <<>>
    /\ entered' = t - skew
    /\ pc' = "j_while"

\* c.wait_for_job_done(batch_id, job_id), called on the client
Call_wait_for_job_done ==
    /\ pc = "idle"
    /\ \E d \in Steps :
         /\ call' = [op |-> "wait_for_job_done", batch_id |-> BATCH_ID,
                     job_id |-> JOB_ID, wait_jobs |-> FALSE, expires |-> 0]
         /\ now' = now + d
         /\ wait_for_job_done_start(BATCH_ID, JOB_ID, "top", now + d)
    /\ UNCHANGED <<skew, ops_frame, client, config, batch_frame, t_cond, ending, waited>>

\* the loop condition of wait_for_job_done
wait_for_job_done_while ==
    /\ pc = "j_while"
    /\ \E d \in Steps :
         /\ now' = now + d
         /\ t_cond' = now + d
         /\ pc' = IF while_cond(now + d, j_start) THEN "j_get" ELSE "j_end"
    /\ UNCHANGED <<skew, ops_frame, client, config, call, batch_frame, job_frame, ending, history>>

\* res = self.get_job_result(batch_id, job_id)
get_job_result ==
    /\ pc = "j_get"
    /\ \E r \in get(JobResultUrl(j_args.batch_id, j_args.job_id),
                    JobBodies(j_args.job_id)) :
         /\ now' = r.t
         /\ token' = r.token
         /\ expires_at' = r.expires_at
         /\ log' = log \o r.evs
         /\ IF r.raised
            THEN RaiseInvalidStatus(r.status) /\ UNCHANGED j_res
            ELSE j_res' = r.body /\ pc' = "j_status" /\ UNCHANGED ending
    /\ UNCHANGED <<skew, ops_frame, config, call, batch_frame, j_args, j_start, t_cond, waited, entered>>

\* the status test of wait_for_job_done, and the sleep when it fails
wait_for_job_done_status ==
    /\ pc = "j_status"
    /\ IF is_terminal(j_res.status)
       THEN pc' = "j_end" /\ UNCHANGED <<now, log>>
       ELSE /\ log' = Append(log, Ev("sleep", <<>>, now, t_cond, NoAuth, 0, None,
                                    sleep_secs(now, j_start)))
            /\ now' = now + sleep_secs(now, j_start)
            /\ pc' = "j_while"
    /\ UNCHANGED <<skew, ops_frame, client, config, call, batch_frame, job_frame, t_cond, ending, waited, entered>>

\* after the loop of wait_for_job_done: raise TimeoutException or return res
wait_for_job_done_end ==
    /\ pc = "j_end"
    /\ IF timed_out(now, j_start)
       THEN RaiseTimeout(j_res) /\ UNCHANGED idx
       ELSE IF j_args.caller = "batch"
            THEN pc' = "b_for" /\ idx' = idx + 1 /\ UNCHANGED ending
            ELSE Return(j_res) /\ UNCHANGED idx
    /\ UNCHANGED <<skew, ops_frame, now, client, config, call, b_start, b_res, job_frame, t_cond, history>>

\* c.wait_for_batch_done(batch_id, wait_jobs), called on the client
Call_wait_for_batch_done ==
    /\ pc = "idle"
    /\ \E wait_jobs \in BOOLEAN, d \in Steps :
         /\ call' = [op |-> "wait_for_batch_done", batch_id |-> BATCH_ID,
                     job_id |-> "", wait_jobs |-> wait_jobs, expires |-> 0]
         /\ now' = now + d
         /\ b_start' = now + d
         /\ entered' = (now + d) - skew
    /\ b_res' = None
    /\ log' = <<>>
    /\ pc' = "b_while"
    /\ UNCHANGED <<skew, ops_frame, client, config, idx, job_frame, t_cond, ending, waited>>

\* the loop condition of wait_for_batch_done
wait_for_batch_done_while ==
    /\ pc = "b_while"
    /\ \E d \in Steps :
         /\ now' = now + d
         /\ t_cond' = now + d
         /\ pc' = IF while_cond(now + d, b_start) THEN "b_get" ELSE "b_end"
    /\ UNCHANGED <<skew, ops_frame, client, config, call, batch_frame, job_frame, ending, history>>

\* res = self.get_batch_status(batch_id)
get_batch_status ==
    /\ pc = "b_get"
    /\ \E r \in get(BatchStatusUrl(call.batch_id),
                    BatchBodies(call.batch_id)) :
         /\ now' = r.t
         /\ token' = r.token
         /\ expires_at' = r.expires_at
         /\ log' = log \o r.evs
         /\ IF r.raised
            THEN RaiseInvalidStatus(r.status) /\ UNCHANGED b_res
            ELSE b_res' = r.body /\ pc' = "b_status" /\ UNCHANGED ending
    /\ UNCHANGED <<skew, ops_frame, config, call, b_start, idx, job_frame, t_cond, waited, entered>>

\* the status test of wait_for_batch_done, and the sleep when it fails
wait_for_batch_done_status ==
    /\ pc = "b_status"
    /\ IF is_terminal(b_res.status)
       THEN pc' = "b_end" /\ UNCHANGED <<now, log>>
       ELSE /\ log' = Append(log, Ev("sleep", <<>>, now, t_cond, NoAuth, 0, None,
                                    sleep_secs(now, b_start)))
            /\ now' = now + sleep_secs(now, b_start)
            /\ pc' = "b_while"
    /\ UNCHANGED <<skew, ops_frame, client, config, call, batch_frame, job_frame, t_cond, ending, waited, entered>>

\* after the loop of wait_for_batch_done: raise TimeoutException or go on
wait_for_batch_done_end ==
    /\ pc = "b_end"
    /\ IF timed_out(now, b_start)
       THEN RaiseTimeout(b_res) /\ UNCHANGED idx
       ELSE pc' = "b_for" /\ idx' = 1 /\ UNCHANGED ending
    /\ UNCHANGED <<skew, ops_frame, now, client, config, call, b_start, b_res, job_frame, t_cond, history>>

\* A for loop that walks res["jobs"] from its last entry to its first.
job_id_of_reversed(res, i) == res.jobs[Len(res.jobs) + 1 - i].job_ksuid

\* `for job in res["jobs"]: job_id = job["job_ksuid"]`: the job id of the
\* i-th iteration.
job_id_of(res, i) == res.jobs[i].job_ksuid

\* A for loop that is left when the batch or the child before ended with
\* "error".
more_jobs_unless_error(res, i) ==
    /\ i <= Len(res.jobs)
    /\ res.status # STATUS_ERROR
    /\ j_res.status # STATUS_ERROR

\* `for job in res["jobs"]`: there is an i-th iteration.
more_jobs(res, i) == i <= Len(res.jobs)

\* A wait_for_batch_done that returns what its last child wait returned.
wait_for_batch_done_result_of_child == IF waited = <<>> THEN b_res ELSE j_res

\* `return res`, the last statement of wait_for_batch_done.
wait_for_batch_done_result == b_res

\* `if wait_jobs: for job in res["jobs"]: self.wait_for_job_done(...)`,
\* then `return res`.  res["jobs"] of None raises TypeError.
wait_for_batch_done_jobs ==
    /\ pc = "b_for"
    /\ IF ~call.wait_jobs
       THEN Return(wait_for_batch_done_result) /\ UNCHANGED <<job_frame, waited, log, entered>>
       ELSE IF b_res = None
       THEN Raise("TypeError", NoExc) /\ UNCHANGED <<job_frame, waited, log, entered>>
       ELSE IF more_jobs(b_res, idx)
       THEN /\ wait_for_job_done_start(call.batch_id, job_id_of(b_res, idx), "batch", now)
            /\ waited' = Append(waited, job_id_of(b_res, idx))
            /\ UNCHANGED ending
       ELSE Return(wait_for_batch_done_result) /\ UNCHANGED <<job_frame, waited, log, entered>>
    /\ UNCHANGED <<skew, ops_frame, now, client, config, call, batch_frame, t_cond>>

Next ==
    \/ Call_wait_for_job_done
    \/ wait_for_job_done_while
    \/ get_job_result
    \/ wait_for_job_done_status
    \/ wait_for_job_done_end
    \/ Call_wait_for_batch_done
    \/ wait_for_batch_done_while
    \/ get_batch_status
    \/ wait_for_batch_done_status
    \/ wait_for_batch_done_end
    \/ wait_for_batch_done_jobs

Spec == Init /\ [][Next]_vars

\* ------------------------------------------- single calls on the client

\* The values of the `expires` argument of authenticate, in minutes.
ExpiresArgs == {0, DEFAULT_EXPIRATION_TIME}
SERVICE == "rg"
SignedUrl(resource, service) == <<"ocr", resource, service>>
SignedUrlBodies == { Rec("signed_url", JOB_ID, "", <<>>) }

\* An authenticate that keeps the expiry minutes it was called with for the
\* automatic re-authentications that follow.
stored_expires_from_call(minutes) == minutes

\* authenticate assigns self.token and self.expires_at and nothing else:
\* self.expires is what the constructor stored, whatever `expires` it is
\* called with.
stored_expires(minutes) == expires

\* c.authenticate(client_id, client_secret, expires), called on the client;
\* when it returns the client is ready for its next call.
Call_authenticate ==
    /\ pc = "idle"
    /\ token < MaxAuth
    /\ \E minutes \in ExpiresArgs, d \in Steps :
         /\ call' = [op |-> "authenticate", batch_id |-> "", job_id |-> "",
                     wait_jobs |-> FALSE, expires |-> minutes]
         /\ \E r \in authenticate(now + d, minutes) :
              /\ now' = r.t
              /\ token' = r.token
              /\ expires_at' = r.expires_at
              /\ log' = r.evs
              /\ entered' = (now + d) - skew
              /\ expires' = stored_expires(minutes)
              /\ IF r.ok
                 THEN UNCHANGED <<pc, ending>>
                 ELSE RaiseInvalidStatus(r.http)
    /\ UNCHANGED <<skew, ops_frame, auto_refresh, timeout, interval, srv_jobs, batch_frame,
                   job_frame, t_cond, waited>>

\* The end of a call that makes one request: raise or return resp.json().
single_request(op, r, t) ==
    /\ call' = [op |-> op, batch_id |-> BATCH_ID, job_id |-> JOB_ID,
                wait_jobs |-> FALSE, expires |-> 0]
    /\ now' = r.t
    /\ token' = r.token
    /\ expires_at' = r.expires_at
    /\ log' = r.evs
    /\ entered' = t - skew
    /\ IF r.raised THEN RaiseInvalidStatus(r.status) ELSE Return(r.body)
    /\ UNCHANGED <<skew, ops_frame, config, batch_frame, job_frame, t_cond, waited>>

\* c.generate_signed_url(service), called on the client
Call_generate_signed_url ==
    /\ pc = "idle"
    /\ \E r \in post(SignedUrl("job", SERVICE), SignedUrlBodies) :
         single_request("generate_signed_url", r, now)

\* c.get_batch_status(batch_id), called on the client
Call_get_batch_status ==
    /\ pc = "idle"
    /\ \E r \in get(BatchStatusUrl(BATCH_ID), BatchBodies(BATCH_ID)) :
         single_request("get_batch_status", r, now)

\* c.get_job_result(batch_id, job_id), called on the client
Call_get_job_result ==
    /\ pc = "idle"
    /\ \E r \in get(JobResultUrl(BATCH_ID, JOB_ID), JobBodies(JOB_ID)) :
         single_request("get_job_result", r, now)

\* Time goes by before the next call on the client: at most MaxStep seconds
\* more than the longest HTTP call since the last call was made.
between_calls ==
    /\ pc = "idle"
    /\ now - skew < entered + MaxLatency + MaxStep
    /\ now' = now + 1
    /\ UNCHANGED <<skew, ops_frame, client, config, pc, call, batch_frame, job_frame, t_cond,
                   ending, history>>

NextAuth ==
    \/ Next
    \/ Call_authenticate
    \/ Call_generate_signed_url
    \/ Call_get_batch_status
    \/ Call_get_job_result
    \/ between_calls

\* A client constructed with timeout=1, whose batch has one job.
InitAuth ==
    /\ Init
    /\ timeout = 1
    /\ Len(srv_jobs) = 1

\* The client with its single calls: authenticate, a submit, a status and a
\* result request, and the waits.
AuthSpec == InitAuth /\ [][NextAuth]_vars

\* The InvalidStatusCodeException of a failed automatic re-authentication
\* reaches the program, which handles it and goes on to its next call.
except_InvalidStatusCodeException ==
    /\ pc = "done"
    /\ outcome = "InvalidStatusCodeException"
    /\ call.op # "authenticate"
    /\ Len(log) > 0
    /\ log[Len(log)].kind = "POST"
    /\ log[Len(log)].url = TokenUrl
    /\ now < MaxCaught
    /\ pc' = "idle"
    /\ outcome' = "running"
    /\ exc' = NoExc
    /\ UNCHANGED <<now, skew, ops_frame, client, config, call, batch_frame, job_frame, t_cond,
                   result, history>>

NextRetry ==
    \/ NextAuth
    \/ except_InvalidStatusCodeException

\* The client of AuthSpec in a program that goes on after a failed
\* re-authentication.
RetrySpec == InitAuth /\ [][NextRetry]_vars

\* time.time() and datetime.now() read the system clock, which can be set
\* while the client waits: a seconds are added to it (a < 0 sets it back)
\* between two iterations of a polling loop.
system_clock_set ==
    /\ pc \in {"j_while", "b_while"}
    /\ skew = 0
    /\ \E a \in (-MaxSkew..MaxSkew) \ {0} :
         /\ now' = now + a
         /\ skew' = skew + a
    /\ UNCHANGED <<ops_frame, client, config, pc, call, batch_frame, job_frame, t_cond, ending,
                   history>>

NextClock ==
    \/ Next
    \/ system_clock_set

\* The client on a machine whose system clock can be set.
ClockSpec == Init /\ [][NextClock]_vars

\* The client's thread runs on: a call that can take a step takes it (the
\* clock advances, every HTTP call and every sleep completes).
LiveSpec == Spec /\ WF_vars(Next)

\* ------------------------------------------------ submissions and reads
HTTP_CREATED == 201
AllHttpCodes == {HTTP_OK, HTTP_CREATED, HTTP_UNAUTHORIZED}
KEY_FACEMATCH == "facematch"
KEY_EXTRA == "extra-document"
FLAG_TRUE == "true"
\* The values of the query parameters facematch and extra-document.
Flags == {FLAG_TRUE, "false"}
\* The ids the server gives to a submission.
SubmissionIds == {BATCH_ID, "0uj"}

\* Client._get or Client._post followed by validate_status_code and
\* resp.json(), with the statuses the server may answer: the outcomes.
request(kind, url, bodies, codes) ==
    UNION { IF ~a.ok
            THEN { [raised |-> TRUE, status |-> a.http, t |-> a.t, token |-> a.token,
                    expires_at |-> a.expires_at, evs |-> a.evs, body |-> None] }
            ELSE { [raised |-> ~validate_status_code(h, HTTP_OK),
                    status |-> h,
                    t |-> a.t + l,
                    token |-> a.token,
                    expires_at |-> a.expires_at,
                    evs |-> Append(a.evs,
                              Ev(kind, url, a.t, t_cond, a.token, h,
                                 IF h = HTTP_OK THEN b ELSE None, 0)),
                    body |-> IF h = HTTP_OK THEN b ELSE None]
                   : l \in Latencies, h \in codes, b \in bodies }
          : a \in auto_authenticate }

\* The request was not sent: the token request before it failed.
auth_failed(r) == r.raised /\ r.evs[Len(r.evs)].url = TokenUrl

JobInfoUrl(job_id) == <<"ocr/job/info", job_id>>
BatchInfoUrl(batch_id) == <<"ocr/batch/info", batch_id>>
BatchResultUrl(batch_id, return) == <<"ocr/batch/result", batch_id, return>>
SingleStepUrl(service) == <<"ocr/job/send", service>>
JobsUrl == <<"ocr/job/results">>
InfoBodies(id) == { Rec("info", id, "done", <<>>) }

\* A call that makes one GET: raise or return resp.json().
read(op, url, bodies) ==
    /\ pc = "idle"
    /\ \E r \in request("GET", url, bodies, AllHttpCodes) : single_request(op, r, now)

\* c.get_job_info(job_id), called on the client
Call_get_job_info == read("get_job_info", JobInfoUrl(JOB_ID), InfoBodies(JOB_ID))

\* c.get_batch_info(batch_id), called on the client
Call_get_batch_info == read("get_batch_info", BatchInfoUrl(BATCH_ID), InfoBodies(BATCH_ID))

\* c.get_batch_result(batch_id), called on the client
Call_get_batch_result ==
    read("get_batch_result", BatchResultUrl(BATCH_ID, "request"), InfoBodies(BATCH_ID))

\* c.get_batch_result_storage(batch_id), called on the client
Call_get_batch_result_storage ==
    read("get_batch_result_storage", BatchResultUrl(BATCH_ID, "storage"),
         InfoBodies(BATCH_ID))

\* dict.update takes at most one positional argument; with more it raises
\* TypeError.
dict_update_accepts(nargs) == nargs <= 1

\* c.send_job_single_step(service, file, ..., params), called on the client.
\* `body.update(KEY_FACEMATCH, facematch_file)` and
\* `body.update("extra", extra_file)` pass two positional arguments.
Call_send_job_single_step ==
    /\ pc = "idle"
    /\ \E fm \in Flags, ex \in Flags :
         /\ sub' = [NoSub EXCEPT !.facematch = fm, !.extra = ex]
         /\ call' = [op |-> "send_job_single_step", batch_id |-> "", job_id |-> "",
                     wait_jobs |-> FALSE, expires |-> 0]
         /\ entered' = now - skew
         /\ IF (fm = FLAG_TRUE \/ ex = FLAG_TRUE) /\ ~dict_update_accepts(2)
            THEN /\ Raise("TypeError", NoExc)
                 /\ log' = <<>>
                 /\ UNCHANGED <<now, client>>
            ELSE \E r \in request("POST", SingleStepUrl(SERVICE), SignedUrlBodies,
                                 AllHttpCodes) :
                   /\ now' = r.t
                   /\ token' = r.token
                   /\ expires_at' = r.expires_at
                   /\ log' = r.evs
                   /\ IF r.raised THEN RaiseInvalidStatus(r.status) ELSE Return(r.body)
    /\ UNCHANGED <<skew, facade, pages, config, batch_frame, job_frame, t_cond, waited>>

\* A page of the job-results endpoint: its jobs and, in id, its nextPageToken
\* ("" when the response has none).
PageTokens == {"", "p2"}
PageBodies ==
    { Rec("page", tok, "", <<[job_ksuid |-> JobKsuid(IF tok = "" THEN 2 ELSE 1),
                               status |-> "done"]>>) : tok \in PageTokens }

\* c.get_jobs(start, end), called on the client: up to the loop
Call_get_jobs ==
    /\ pc = "idle"
    /\ call' = [op |-> "get_jobs", batch_id |-> "", job_id |-> "",
                wait_jobs |-> FALSE, expires |-> 0]
    /\ pages' = [jobs |-> <<>>, token |-> "", has_next_page |-> TRUE]
    /\ log' = <<>>
    /\ entered' = now - skew
    /\ pc' = "g_page"
    /\ UNCHANGED <<now, skew, facade, sub, client, config, batch_frame, job_frame, t_cond,
                   ending, waited>>

\* One iteration of the loop of get_jobs, and `return jobs` after the last.
\* The status of the response is not looked at: resp.json() of an answer that
\* is no JSON raises JSONDecodeError, and `jobs += res.get("jobs")` of an
\* answer without "jobs" raises TypeError.  `params.update("nextPageToken",
\* token)` passes two positional arguments.
get_jobs_page ==
    /\ pc = "g_page"
    /\ \E r \in request("GET", JobsUrl, PageBodies, AllHttpCodes), is_json \in BOOLEAN :
         /\ now' = r.t
         /\ token' = r.token
         /\ expires_at' = r.expires_at
         /\ log' = log \o r.evs
         /\ IF auth_failed(r)
            THEN RaiseInvalidStatus(r.status) /\ UNCHANGED pages
            ELSE IF r.status # HTTP_OK /\ ~is_json
            THEN Raise("JSONDecodeError", NoExc) /\ UNCHANGED pages
            ELSE IF r.status # HTTP_OK
            THEN Raise("TypeError", NoExc) /\ UNCHANGED pages
            ELSE IF ~dict_update_accepts(2)
            THEN /\ Raise("TypeError", NoExc)
                 /\ pages' = [pages EXCEPT !.jobs = @ \o r.body.jobs, !.token = r.body.id]
            ELSE /\ pages' = [jobs |-> pages.jobs \o r.body.jobs,
                              token |-> r.body.id,
                              has_next_page |-> r.body.id # ""]
                 /\ IF r.body.id # ""
                    THEN UNCHANGED <<pc, ending>>
                    ELSE Return(Rec("jobs", "", "", pages.jobs \o r.body.jobs))
    /\ UNCHANGED <<skew, facade, sub, config, call, batch_frame, job_frame, t_cond, waited,
                   entered>>

\* The signed-URL answers: the id of the submission; its "urls" are the
\* upload URLs of that id, one per slot.
SubmissionBodies == { Rec("signed_url", id, "", <<>>) : id \in SubmissionIds }
UploadUrl(id, slot) == <<"signed", id, slot>>
\* The argument of send_job whose content goes to a slot.
FileArg(slot) ==
    IF slot = "document" THEN "file"
    ELSE IF slot = "selfie" THEN "facematch_file" ELSE "extra_file"

\* Resource.JOB for send_job and send_job_base64, Resource.BATCH for send_batch
\* and send_batch_base64.
resource_of(op) == IF op \in {"send_job", "send_job_base64"} THEN "job" ELSE "batch"

\* A send_job that uploads the extra document before the selfie.
slots_extra_first(op, fm, ex) ==
    <<"document">>
    \o (IF resource_of(op) = "job" /\ ex = FLAG_TRUE THEN <<"extra_document">> ELSE <<>>)
    \o (IF resource_of(op) = "job" /\ fm = FLAG_TRUE THEN <<"selfie">> ELSE <<>>)

\* A send_job that uploads to the selfie slot whatever facematch is.
slots_selfie_always(op, fm, ex) ==
    <<"document">>
    \o (IF resource_of(op) = "job" THEN <<"selfie">> ELSE <<>>)
    \o (IF resource_of(op) = "job" /\ ex = FLAG_TRUE THEN <<"extra_document">> ELSE <<>>)

\* The slots a send_* uploads, in order: the document; for a job the selfie
\* when params.get(KEY_FACEMATCH) == FLAG_TRUE, then the extra document when
\* params.get(KEY_EXTRA) == FLAG_TRUE.
slots(op, fm, ex) ==
    <<"document">>
    \o (IF resource_of(op) = "job" /\ fm = FLAG_TRUE THEN <<"selfie">> ELSE <<>>)
    \o (IF resource_of(op) = "job" /\ ex = FLAG_TRUE THEN <<"extra_document">> ELSE <<>>)

\* A job_data whose id is not the one the signed-URL request returned.
job_data_other_id(res) ==
    Rec("job_data", CHOOSE id \in SubmissionIds : id # res.id, "", <<>>)

\* `{"id": res.get("id"), "status_url": res.get("status_url")}`
job_data(res) == Rec("job_data", res.id, "", <<>>)

\* `with open(file_path, "rb")` of upload_file_with_path, which send_job and
\* send_batch call: the file can be opened or not.  send_job_base64 and
\* send_batch_base64 are given the content and open nothing.
can_open(op) == IF op \in {"send_job", "send_batch"} THEN BOOLEAN ELSE {TRUE}

\* A send_* that opens its document before it asks for the signed URL.
send_start_opens_first(op, outer, wait_jobs) ==
    /\ pc = "idle"
    /\ \E fm \in Flags, ex \in Flags, opened \in can_open(op),
          r \in post(SignedUrl(resource_of(op), SERVICE), SubmissionBodies) :
         /\ call' = [op |-> op, batch_id |-> "", job_id |-> "",
                     wait_jobs |-> wait_jobs, expires |-> 0]
         /\ facade' = outer
         /\ entered' = now - skew
         /\ IF ~opened
            THEN /\ Raise("FileNotFoundError", NoExc)
                 /\ sub' = [NoSub EXCEPT !.facematch = fm, !.extra = ex]
                 /\ log' = <<>>
                 /\ UNCHANGED <<now, client>>
            ELSE /\ now' = r.t
                 /\ token' = r.token
                 /\ expires_at' = r.expires_at
                 /\ log' = r.evs
                 /\ IF r.raised
                    THEN /\ RaiseInvalidStatus(r.status)
                         /\ sub' = [NoSub EXCEPT !.facematch = fm, !.extra = ex]
                    ELSE /\ sub' = [facematch |-> fm, extra |-> ex, res |-> r.body,
                                    todo |-> slots(op, fm, ex)]
                         /\ pc' = "s_put"
                         /\ UNCHANGED ending
    /\ UNCHANGED <<skew, pages, config, batch_frame, job_frame, t_cond, waited>>

\* The start of send_job, send_batch and their base64 variants, called on the
\* client or by create_and_wait_*: generate_signed_url.
send_start(op, outer, wait_jobs) ==
    /\ pc = "idle"
    /\ \E fm \in Flags, ex \in Flags,
          r \in post(SignedUrl(resource_of(op), SERVICE), SubmissionBodies) :
         /\ call' = [op |-> op, batch_id |-> "", job_id |-> "",
                     wait_jobs |-> wait_jobs, expires |-> 0]
         /\ facade' = outer
         /\ now' = r.t
         /\ token' = r.token
         /\ expires_at' = r.expires_at
         /\ log' = r.evs
         /\ entered' = now - skew
         /\ IF r.raised
            THEN /\ RaiseInvalidStatus(r.status)
                 /\ sub' = [NoSub EXCEPT !.facematch = fm, !.extra = ex]
            ELSE /\ sub' = [facematch |-> fm, extra |-> ex, res |-> r.body,
                            todo |-> slots(op, fm, ex)]
                 /\ pc' = "s_put"
                 /\ UNCHANGED ending
    /\ UNCHANGED <<skew, pages, config, batch_frame, job_frame, t_cond, waited>>

Call_send_job == send_start("send_job", "none", FALSE)
Call_send_batch == send_start("send_batch", "none", FALSE)
Call_send_job_base64 == send_start("send_job_base64", "none", FALSE)
Call_send_batch_base64 == send_start("send_batch_base64", "none", FALSE)

\* c.create_and_wait_job(...), called on the client: `res = self.send_job(...)`
Call_create_and_wait_job == send_start("send_job", "create_and_wait_job", FALSE)

\* c.create_and_wait_batch(..., wait_jobs), called on the client:
\* `res = self.send_batch(...)`
Call_create_and_wait_batch ==
    \E wait_jobs \in BOOLEAN : send_start("send_batch", "create_and_wait_batch", wait_jobs)

\* An upload that sends the client's bearer token to the pre-signed URL.
upload_auth_bearer(tok) == tok

\* `requests.put(url, data=file, timeout=UPLOAD_TIMEOUT)`: no auth argument,
\* whatever the token of the client.
upload_auth(tok) == NoAuth

\* helpers.upload_file / upload_file_with_path of the next slot:
\* upload_file_with_path first opens and reads the file, and open() raises
\* when it cannot; then requests.put with no auth, then validate_status_code;
\* after the last slot send_* returns job_data to its caller.
upload_file ==
    /\ pc = "s_put"
    /\ \E l \in Latencies, h \in AllHttpCodes, opened \in can_open(call.op) :
         IF ~opened
         THEN /\ Raise("FileNotFoundError", NoExc)
              /\ UNCHANGED <<now, log, sub>>
         ELSE /\ now' = now + l
              /\ log' = Append(log,
                          Ev("PUT", UploadUrl(sub.res.id, Head(sub.todo)), now, t_cond,
                             upload_auth(token), h,
                             Rec("file", FileArg(Head(sub.todo)), "", <<>>), 0))
              /\ sub' = [sub EXCEPT !.todo = Tail(@)]
              /\ IF ~validate_status_code(h, HTTP_OK)
                 THEN RaiseInvalidStatus(h)
                 ELSE IF Tail(sub.todo) # <<>>
                 THEN UNCHANGED <<pc, ending>>
                 ELSE IF facade = "none"
                 THEN Return(job_data(sub.res))
                 ELSE pc' = "s_ret" /\ UNCHANGED ending
    /\ UNCHANGED <<skew, facade, pages, client, config, call, batch_frame, job_frame, t_cond,
                   waited, entered>>

\* A create_and_wait_job whose wait counts its timeout from the start of the
\* submission.
create_and_wait_job_keeps_elapsed ==
    /\ pc = "s_ret"
    /\ facade = "create_and_wait_job"
    /\ call' = [op |-> "wait_for_job_done", batch_id |-> job_data(sub.res).id,
                job_id |-> job_data(sub.res).id, wait_jobs |-> FALSE, expires |-> 0]
    /\ wait_for_job_done_start(job_data(sub.res).id, job_data(sub.res).id, "top",
                               entered + skew)
    /\ UNCHANGED <<now, skew, ops_frame, client, config, batch_frame, t_cond, ending, waited>>

\* create_and_wait_job: `job_id = res.get("id")`,
\* `return self.wait_for_job_done(job_id, job_id)`
create_and_wait_job ==
    /\ pc = "s_ret"
    /\ facade = "create_and_wait_job"
    /\ call' = [op |-> "wait_for_job_done", batch_id |-> job_data(sub.res).id,
                job_id |-> job_data(sub.res).id, wait_jobs |-> FALSE, expires |-> 0]
    /\ wait_for_job_done_start(job_data(sub.res).id, job_data(sub.res).id, "top", now)
    /\ UNCHANGED <<now, skew, ops_frame, client, config, batch_frame, t_cond, ending, waited>>

\* create_and_wait_batch: `batch_id = res.get("id")`,
\* `return self.wait_for_batch_done(batch_id, wait_jobs)`
create_and_wait_batch ==
    /\ pc = "s_ret"
    /\ facade = "create_and_wait_batch"
    /\ call' = [op |-> "wait_for_batch_done", batch_id |-> job_data(sub.res).id,
                job_id |-> "", wait_jobs |-> call.wait_jobs, expires |-> 0]
    /\ b_start' = now
    /\ entered' = now - skew
    /\ b_res' = None
    /\ log' = <<>>
    /\ pc' = "b_while"
    /\ UNCHANGED <<now, skew, ops_frame, client, config, idx, job_frame, t_cond, ending, waited>>

NextOps ==
    \/ Call_generate_signed_url
    \/ Call_get_batch_status
    \/ Call_get_job_result
    \/ Call_get_job_info
    \/ Call_get_batch_info
    \/ Call_get_batch_result
    \/ Call_get_batch_result_storage
    \/ Call_send_job_single_step
    \/ Call_get_jobs
    \/ get_jobs_page
    \/ Call_send_job
    \/ Call_send_batch
    \/ Call_send_job_base64
    \/ Call_send_batch_base64
    \/ Call_create_and_wait_job
    \/ Call_create_and_wait_batch
    \/ upload_file
    \/ create_and_wait_job
    \/ create_and_wait_batch
    \/ wait_for_job_done_while
    \/ get_job_result
    \/ wait_for_job_done_status
    \/ wait_for_job_done_end
    \/ wait_for_batch_done_while
    \/ get_batch_status
    \/ wait_for_batch_done_status
    \/ wait_for_batch_done_end
    \/ wait_for_batch_done_jobs

\* The client with its submissions, its reads and create_and_wait_*.
OpsSpec == InitAuth /\ [][NextOps]_vars

\* ---------------------------------------------------------------- claims

\* What the claims say about the log and the frames.
TerminalStatuses == {"done", "error"}
IsFetch(e) == e.kind = "GET"
Observed(e) == e.kind = "GET" /\ e.http = HTTP_OK
ObservedTerminal(e) == Observed(e) /\ e.body.status \in TerminalStatuses
ObservedNonTerminal(e) == Observed(e) /\ e.body.status \notin TerminalStatuses
IsSleep(e) == e.kind = "sleep"
JobCall == call.op = "wait_for_job_done"
BatchCall == call.op = "wait_for_batch_done"
\* The log is that of a wait_for_job_done (called on the client or by
\* wait_for_batch_done), or that of the batch loop of wait_for_batch_done.
LogOfJob == JobCall \/ (BatchCall /\ waited # <<>>)
LogOfBatch == BatchCall /\ waited = <<>>
InJobWait == pc \in {"j_while", "j_get", "j_status", "j_end"}
InBatchLoop == pc \in {"b_while", "b_get", "b_status", "b_end"}
\* timeout_start and res of the wait the log belongs to.
WaitStart == IF LogOfJob THEN j_start ELSE b_start
WaitRes == IF LogOfJob THEN j_res ELSE b_res
Deadline == WaitStart + timeout
Done == pc = "done"

\* C1: in wait_for_job_done the first fetch that observes "done" or "error"
\* ends the call: nothing is fetched and no sleep is made after it, and the
\* call returns exactly that record.
C1_FirstTerminalFetchReturned ==
    LogOfJob =>
      \A i \in 1..Len(log) :
        ObservedTerminal(log[i]) =>
          /\ i = Len(log)
          /\ Done => outcome = "returned"
          /\ (Done /\ JobCall) => result = log[i].body

\* C2: when every status fetch of a wait answered a non-terminal status and
\* the wait has ended, it has ended by raising TimeoutException, not by
\* returning a record.
C2_NonTerminalUntilTimeoutRaises ==
    ( /\ Done
      /\ Len(log) > 0
      /\ \A i \in 1..Len(log) :
           /\ IsFetch(log[i]) => ObservedNonTerminal(log[i])
           /\ log[i].kind = "POST" => log[i].http = HTTP_OK
      /\ \E i \in 1..Len(log) : IsFetch(log[i]) )
    => outcome = "TimeoutException"

\* C3: wait_for_batch_done(wait_jobs=True) starts its child waits one per entry
\* of res["jobs"], in list order, the next only when the one before has
\* returned; a child wait fetches the job result of its own entry only, so
\* when a child raises TimeoutException no later entry is asked for; and when
\* the call returns every entry has been waited for.
C3_ChildWaitsInListOrder ==
    BatchCall =>
      /\ Len(waited) <= Len(b_res.jobs)
      /\ \A i \in 1..Len(waited) : waited[i] = b_res.jobs[i].job_ksuid
      /\ InJobWait =>
           /\ idx = Len(waited)
           /\ j_args.job_id = waited[Len(waited)]
           /\ j_args.batch_id = call.batch_id
      /\ pc = "b_for" => idx = Len(waited) + 1
      /\ waited # <<>> =>
           \A i \in 1..Len(log) :
             IsFetch(log[i]) =>
               log[i].url = JobResultUrl(call.batch_id, waited[Len(waited)])
      /\ (Done /\ outcome = "returned" /\ call.wait_jobs) =>
           Len(waited) = Len(b_res.jobs)
      /\ (Done /\ outcome = "TimeoutException" /\ waited # <<>>) =>
           /\ exc.timeout = timeout
           /\ exc.last_res = j_res

\* A child wait has raised TimeoutException while a later entry was not yet
\* waited for.
C3_Witness ==
    /\ BatchCall /\ call.wait_jobs /\ Done
    /\ outcome = "TimeoutException"
    /\ Len(waited) = 1
    /\ Len(b_res.jobs) = 2

\* C4: wait_for_batch_done(wait_jobs=False) never sends a job-result request,
\* and the first fetch that observes the batch "done" or "error" ends it: the
\* call returns that batch record, whatever the statuses of its "jobs".
C4_NoJobRequestAndReturnsBatch ==
    (BatchCall /\ ~call.wait_jobs) =>
      /\ waited = <<>>
      /\ ~InJobWait
      /\ \A i \in 1..Len(log) :
           /\ IsFetch(log[i]) => log[i].url = BatchStatusUrl(call.batch_id)
           /\ ObservedTerminal(log[i]) =>
                /\ i = Len(log)
                /\ Done => (outcome = "returned" /\ result = log[i].body)

\* C5: a child wait is started only when a batch-status fetch has observed
\* the batch "done" or "error".
C5_ChildWaitsOnlyAfterTerminalBatch ==
    (BatchCall /\ waited # <<>>) => b_res.status \in TerminalStatuses

\* C6: when the batch was observed terminal within its wait, every entry of
\* its "jobs" has been waited for and the last child was observed terminal
\* within its own wait, wait_for_batch_done(wait_jobs=True) has returned, and
\* has returned the batch record of the batch loop; no child wait fetches the
\* batch status.
C6_ReturnsBatchRecordAfterChildren ==
    (BatchCall /\ call.wait_jobs) =>
      /\ ( /\ Done
           /\ b_res.status \in TerminalStatuses
           /\ Len(waited) = Len(b_res.jobs)
           /\ WaitRes.status \in TerminalStatuses
           /\ ~(now > Deadline) )
         => (outcome = "returned" /\ result = b_res)
      /\ (Done /\ outcome = "returned") => result = b_res
      /\ waited # <<>> =>
           \A i \in 1..Len(log) : log[i].url # BatchStatusUrl(call.batch_id)

\* The batch and both of its jobs were observed terminal and the call has
\* returned.
C6_Witness ==
    /\ BatchCall /\ call.wait_jobs /\ Done
    /\ outcome = "returned"
    /\ result.kind = "batch" /\ result.status = "done"
    /\ Len(waited) = 2
    /\ j_res.status \in TerminalStatuses

\* C7: a fetch that observes "error" ends the polling of its target like one
\* that observes "done"; the record is returned as the result; the only
\* exceptions a wait raises are TimeoutException, with the clock past the
\* deadline, InvalidStatusCodeException, on an HTTP status other than 200, and
\* TypeError when there is no record at all.
C7_ErrorStatusIsReturned ==
    /\ \A i \in 1..Len(log) :
         (Observed(log[i]) /\ log[i].body.status = "error") =>
           /\ i = Len(log)
           /\ pc \notin {"j_while", "j_get", "b_while", "b_get"}
    /\ (Done /\ WaitRes.status = "error" /\ ~(now > Deadline)
          /\ (JobCall \/ ~call.wait_jobs))
       => (outcome = "returned" /\ result = WaitRes)
    /\ outcome = "TimeoutException" => now > Deadline
    /\ outcome = "InvalidStatusCodeException" =>
         /\ Len(log) > 0
         /\ log[Len(log)].kind \in {"GET", "POST"}
         /\ log[Len(log)].http # HTTP_OK
    /\ outcome = "TypeError" => b_res = None
    /\ outcome \in {"running", "returned", "TimeoutException",
                    "InvalidStatusCodeException", "TypeError"}

\* A wait has returned a record whose status is "error".
C7_Witness ==
    /\ Done /\ outcome = "returned"
    /\ result.status = "error"
    /\ Len(log) > 0 /\ log[Len(log)].body = result

\* C8: a status fetch answered with an HTTP status other than 200 is the last
\* thing its wait does: the call has ended with InvalidStatusCodeException
\* carrying that status, with no sleep and no request after the fetch.
C8_BadStatusEndsWait ==
    \A i \in 1..Len(log) :
      (IsFetch(log[i]) /\ log[i].http # HTTP_OK) =>
        /\ i = Len(log)
        /\ Done
        /\ outcome = "InvalidStatusCodeException"
        /\ exc.status = log[i].http
        /\ exc.expected = HTTP_OK

\* The fetch of a child job of a batch was answered 401.
C8_Witness ==
    /\ BatchCall /\ waited # <<>> /\ Done
    /\ Len(log) > 0
    /\ IsFetch(log[Len(log)])
    /\ log[Len(log)].http = HTTP_UNAUTHORIZED

\* C9: a fetch that observes a non-terminal status is followed by one sleep of
\* the configured interval and, when the loop condition then reads the clock
\* before the deadline, by the next fetch; the polling of a target stops only
\* on a terminal status, at the deadline, or on a raised transport error.
C9_NonTerminalSleepsThenPolls ==
    /\ \A i \in 1..Len(log) :
         /\ ObservedNonTerminal(log[i]) =>
              IF i = Len(log)
              THEN pc \in {"j_status", "b_status"}
              ELSE /\ IsSleep(log[i + 1])
                   /\ log[i + 1].secs = interval
         /\ IsSleep(log[i]) =>
              /\ i > 1 /\ ObservedNonTerminal(log[i - 1])
              /\ i < Len(log) => ~IsSleep(log[i + 1])
    /\ (pc \in {"j_get", "b_get"}) => t_cond < Deadline
    /\ (pc \in {"j_end", "b_end"}) =>
         \/ WaitRes.status \in TerminalStatuses
         \/ t_cond >= Deadline
    /\ (pc \in {"j_while", "b_while"} /\ Len(log) > 0) =>
         /\ IsSleep(log[Len(log)])
         /\ now = log[Len(log)].at + interval

\* A second fetch was made after a non-terminal answer and a sleep.
C9_Witness ==
    /\ Len(log) >= 3
    /\ ObservedNonTerminal(log[1])
    /\ IsSleep(log[2])
    /\ IsFetch(log[3])

\* C10 as claimed: every status fetch of a wait is issued at a time strictly
\* before the deadline, the entry time of the wait plus the timeout.
C10_FetchIssuedBeforeDeadline ==
    \A i \in 1..Len(log) : IsFetch(log[i]) => log[i].at < Deadline

\* C10 as amended: every status fetch of a wait follows a loop condition that
\* read the clock strictly before the deadline; the fetch is issued at that
\* reading, or later when a token request of the automatic re-authentication
\* comes between the two.
C10_FetchFollowsCheckBeforeDeadline ==
    \A i \in 1..Len(log) :
      IsFetch(log[i]) =>
        /\ log[i].checked < Deadline
        /\ log[i].checked <= log[i].at
        /\ log[i].at # log[i].checked =>
             /\ i > 1
             /\ log[i - 1].kind = "POST"
             /\ log[i - 1].url = TokenUrl
             /\ log[i - 1].at = log[i].checked

\* A status fetch was issued when the deadline had been reached.
C10_Witness ==
    \E i \in 1..Len(log) : IsFetch(log[i]) /\ log[i].at >= Deadline

\* The time elapsed since the client was constructed.
Elapsed == now - skew

\* C11: a TimeoutException carries the configured timeout and the last record
\* its wait fetched; and a wait that ended without a single request, its first
\* loop condition having read the clock at or after the deadline, has ended
\* with TimeoutException(timeout, None).
C11_TimeoutCarriesLastRecord ==
    /\ outcome = "TimeoutException" =>
         /\ exc.timeout = timeout
         /\ exc.last_res = WaitRes
    /\ (Done /\ log = <<>>) =>
         /\ outcome = "TimeoutException"
         /\ exc.last_res = None

\* C12: a child wait of wait_for_batch_done takes its timeout_start when it
\* is entered: it polls as long as its loop condition reads the clock before
\* (its own entry + timeout) and raises TimeoutException only past that.
C12_ChildDeadlineFromOwnStart ==
    (BatchCall /\ waited # <<>>) =>
      /\ j_start = entered
      /\ j_start >= b_start
      /\ pc = "j_get" => t_cond < entered + timeout
      /\ outcome = "TimeoutException" => Elapsed > entered + timeout
      /\ \A i \in 1..Len(log) :
           IsFetch(log[i]) => log[i].checked < entered + timeout

\* The second child of a batch polls when two timeout windows have gone by
\* since wait_for_batch_done was entered.
C12_Witness ==
    /\ BatchCall /\ Len(waited) = 2
    /\ timeout > 0
    /\ pc = "j_get"
    /\ t_cond >= b_start + 2 * timeout

\* C13: setting the system clock does not change how long a wait polls: a
\* status fetch is made only when less than the timeout has elapsed since the
\* wait was entered at the loop condition before it, and TimeoutException is
\* raised only when more than the timeout has elapsed.
C13_DeadlineFollowsElapsedTime ==
    /\ pc \in {"j_get", "b_get"} => t_cond - skew < entered + timeout
    /\ outcome = "TimeoutException" => Elapsed > entered + timeout

\* C14: the polling of one target is over when the timeout has elapsed since
\* its wait was entered: no status fetch completes, and no sleep ends, after
\* the deadline.
C14_WaitEndsWithinTimeout ==
    /\ pc \in {"j_status", "b_status"} => Elapsed <= entered + timeout
    /\ \A i \in 1..Len(log) :
         IsSleep(log[i]) => log[i].at + log[i].secs <= Deadline

\* C15 as claimed: every call ends, by returning a record or by raising
\* TimeoutException or InvalidStatusCodeException.
C15_EndsWithRecordOrException ==
    <>( /\ Done
        /\ \/ outcome = "returned" /\ result # None
           \/ outcome \in {"TimeoutException", "InvalidStatusCodeException"} )

\* C15, termination alone: every call ends.
C15_Terminates == <>Done

\* The token request, and the requests that carry the bearer token.
IsTokenPost(e) == e.kind = "POST" /\ e.url = TokenUrl
IsRequest(e) == e.kind \in {"GET", "POST"} /\ e.url # TokenUrl
TokensIssuedAfter(i) ==
    Cardinality({ k \in (i + 1)..Len(log) :
                    IsTokenPost(log[k]) /\ log[k].http = HTTP_OK })
\* The requests and sleeps a step adds to the log.  A call made on the idle
\* client starts a log of its own.
NewEvs ==
    IF pc = "idle"
    THEN IF pc' # pc \/ token' # token THEN log' ELSE <<>>
    ELSE SubSeq(log', Len(log) + 1, Len(log'))
AuthenticateCalled == pc = "idle" /\ call'.op = "authenticate" /\ NewEvs # <<>>

\* C16: when the token endpoint answers 200, authenticate returns without an
\* error, the token issued is stored and expires_at is the time of the return
\* plus `expires` minutes; every later get or post carries the token stored by
\* the latest successful authenticate.
C16_AuthenticateStoresToken ==
    [][ /\ (AuthenticateCalled /\ log'[1].http = HTTP_OK) =>
             /\ pc' = "idle"
             /\ outcome' = "running"
             /\ token' = token + 1
             /\ expires_at' = now' + call'.expires * SecondsPerMinute
             /\ log'[1].auth = NoAuth
        /\ \A i \in 1..Len(NewEvs) :
             IsRequest(NewEvs[i]) => NewEvs[i].auth = token'
      ]_vars

\* A status request carries the token of the second of two authenticate calls.
C16_Witness ==
    /\ call.op = "get_batch_status"
    /\ Done /\ outcome = "returned"
    /\ token = 2
    /\ log = <<log[1]>>
    /\ log[1].auth = 2

\* C17: when the token endpoint answers another status than 200 the call
\* ends there with InvalidStatusCodeException(status, 200), and token and
\* expires_at are what they were.
C17_FailedAuthenticateKeepsCredential ==
    [][ \A i \in 1..Len(NewEvs) :
          (IsTokenPost(NewEvs[i]) /\ NewEvs[i].http # HTTP_OK) =>
            /\ i = Len(NewEvs)
            /\ token' = token
            /\ expires_at' = expires_at
            /\ pc' = "done"
            /\ outcome' = "InvalidStatusCodeException"
            /\ exc'.status = NewEvs[i].http
            /\ exc'.expected = HTTP_OK
      ]_vars

\* authenticate has failed on a client that holds a token of an earlier
\* authenticate.
C17_Witness ==
    /\ call.op = "authenticate"
    /\ Done /\ outcome = "InvalidStatusCodeException"
    /\ token = 1
    /\ expires_at > ConstructedAt

\* C18 as claimed: a token request answered with another status than 200 ends
\* the call with an error of the kind AuthenticationFailure.
C18_AuthenticationFailureKind ==
    (Done /\ Len(log) > 0 /\ IsTokenPost(log[Len(log)])
       /\ log[Len(log)].http # HTTP_OK)
    => outcome = "AuthenticationFailure"

\* C18 as amended: a request answered with another status than 200 ends the
\* call with InvalidStatusCodeException(status, 200), the token request like
\* the request of every other endpoint.
C18_SameKindForEveryEndpoint ==
    (Done /\ Len(log) > 0 /\ log[Len(log)].kind \in {"GET", "POST"}
       /\ log[Len(log)].http # HTTP_OK)
    => /\ outcome = "InvalidStatusCodeException"
       /\ exc.status = log[Len(log)].http
       /\ exc.expected = HTTP_OK

\* The token request of the automatic re-authentication of a submit was
\* answered 401.
C18_Witness ==
    /\ call.op = "generate_signed_url"
    /\ Done
    /\ Len(log) = 1
    /\ IsTokenPost(log[1])
    /\ log[1].http = HTTP_UNAUTHORIZED

\* C19: with auto_refresh, each get and post reads the clock first; past
\* expires_at it sends the token request, with the stored expiry minutes,
\* and the request that follows carries the new token; otherwise it sends
\* the request alone, with the stored token.
C19_RefreshBeforeRequest ==
    [][ (NewEvs # <<>> /\ ~IsSleep(NewEvs[1]) /\ ~AuthenticateCalled) =>
          IF auto_refresh /\ NewEvs[1].at > expires_at
          THEN /\ IsTokenPost(NewEvs[1])
               /\ NewEvs[1].http = HTTP_OK =>
                    /\ Len(NewEvs) = 2
                    /\ IsRequest(NewEvs[2])
                    /\ token' # token
                    /\ NewEvs[2].auth = token'
                    /\ expires_at' = NewEvs[2].at + expires * SecondsPerMinute
               /\ NewEvs[1].http # HTTP_OK => Len(NewEvs) = 1
          ELSE /\ Len(NewEvs) = 1
               /\ IsRequest(NewEvs[1])
               /\ NewEvs[1].auth = token
               /\ UNCHANGED <<token, expires_at>>
      ]_vars

\* A poll of a wait has replaced the expired token of an authenticate call.
C19_Witness ==
    /\ auto_refresh
    /\ pc = "j_status"
    /\ Len(log) = 2
    /\ IsTokenPost(log[1]) /\ log[1].http = HTTP_OK
    /\ IsRequest(log[2]) /\ log[2].auth = 2
    /\ token = 2

\* C20: token and expires_at change only in a step in which the token
\* endpoint answered 200, of an authenticate call or of the automatic
\* re-authentication of a client with auto_refresh whose token has expired;
\* without auto_refresh no call but authenticate sends a token request.
C20_CredentialChangesOnlyByAuthenticate ==
    [][ /\ (token' # token \/ expires_at' # expires_at) =>
             /\ \E i \in 1..Len(NewEvs) :
                  IsTokenPost(NewEvs[i]) /\ NewEvs[i].http = HTTP_OK
             /\ \/ AuthenticateCalled
                \/ auto_refresh /\ NewEvs[1].at > expires_at
        /\ (~auto_refresh /\ call'.op # "authenticate") =>
             \A i \in 1..Len(log') : ~IsTokenPost(log'[i])
      ]_vars

\* Without auto_refresh a wait has polled with a token that had expired.
C20_Witness ==
    /\ ~auto_refresh
    /\ JobCall /\ Done /\ outcome = "returned"
    /\ token = 1
    /\ Len(log) > 0
    /\ IsFetch(log[Len(log)])
    /\ log[Len(log)].at > expires_at
    /\ log[Len(log)].auth = 1

\* What the claims say about submissions and reads.
SingleOps ==
    {"generate_signed_url", "send_job_single_step", "get_batch_status", "get_job_result",
     "get_job_info", "get_batch_info", "get_batch_result", "get_batch_result_storage"}
IsPut(e) == e.kind = "PUT"
Requests == { i \in 1..Len(log) : IsRequest(log[i]) }
TokenRequestFailed ==
    \E i \in 1..Len(log) : IsTokenPost(log[i]) /\ log[i].http # HTTP_OK

\* C21: a call of one of the eight single-request operations sends exactly
\* one request to its endpoint (when the token request of an automatic
\* re-authentication did not fail before it); answered 200 the call returns
\* the body, answered anything else, 201 included, it raises
\* InvalidStatusCodeException(status, 200).
C21_OneRequestAndOnly200Returns ==
    (call.op \in SingleOps /\ Done /\ ~TokenRequestFailed) =>
      /\ Cardinality(Requests) = 1
      /\ \A i \in Requests :
           IF log[i].http = HTTP_OK
           THEN outcome = "returned" /\ result = log[i].body
           ELSE /\ outcome = "InvalidStatusCodeException"
                /\ exc.status = log[i].http
                /\ exc.expected = HTTP_OK

\* C22: get_jobs, when a page request is answered with another status than
\* 200, ends with InvalidStatusCodeException.
C22_GetJobsRaisesOnBadStatus ==
    (call.op = "get_jobs"
       /\ \E i \in Requests : log[i].http # HTTP_OK)
    => /\ Done
       /\ outcome = "InvalidStatusCodeException"

\* C23: get_jobs, when every page request was answered 200, ends after the
\* first page without a nextPageToken and returns the jobs of all pages in
\* page order.
C23_GetJobsReturnsAllPages ==
    (call.op = "get_jobs" /\ Done /\ ~TokenRequestFailed
       /\ \A i \in Requests : log[i].http = HTTP_OK)
    => /\ outcome = "returned"
       /\ log[Len(log)].body.id = ""
       /\ \A i \in Requests : i < Len(log) => log[i].body.id # ""
       /\ result.jobs = pages.jobs

\* C29: send_job_single_step sends its POST whatever facematch and
\* extra-document are, and returns the answer when it is 200.
C29_SingleStepAlwaysPosts ==
    (call.op = "send_job_single_step" /\ Done /\ ~TokenRequestFailed) =>
      /\ \E i \in Requests :
           /\ log[i].kind = "POST"
           /\ log[i].url = SingleStepUrl(SERVICE)
      /\ \A i \in Requests :
           log[i].http = HTTP_OK => (outcome = "returned" /\ result = log[i].body)

\* What the claims say about the uploads of a submission.
JobSendOps == {"send_job", "send_job_base64"}
SendOps == {"send_job", "send_batch", "send_job_base64", "send_batch_base64"}
Puts == { i \in 1..Len(log) : IsPut(log[i]) }
SlotOf(e) == e.url[3]
SlotRank(e) ==
    IF SlotOf(e) = "document" THEN 1 ELSE IF SlotOf(e) = "selfie" THEN 2 ELSE 3
IsSignedUrlPost(e) ==
    e.kind = "POST" /\ e.url \in {SignedUrl("job", SERVICE), SignedUrl("batch", SERVICE)}
Uploaded(slot) == \E i \in Puts : SlotOf(log[i]) = slot
FileRead(arg) == \E i \in Puts : log[i].body.id = arg

\* C24: send_job and send_job_base64 upload only after the signed-URL request
\* was answered 200, to the URLs of its answer, in the order document, selfie,
\* extra document with one PUT per slot; the first PUT answered with another
\* status than 200 is the last request of the call, which ends with
\* InvalidStatusCodeException; the call sends nothing but POSTs and PUTs, so
\* nothing uploaded is deleted.
C24_UploadsInOrderAndFailFast ==
    call.op \in JobSendOps =>
      /\ \A i \in 1..Len(log) : log[i].kind \in {"POST", "PUT"}
      /\ \A i \in Puts :
           /\ \E k \in 1..(i - 1) :
                /\ IsSignedUrlPost(log[k])
                /\ log[k].http = HTTP_OK
                /\ log[i].url = <<"signed", log[k].body.id, SlotOf(log[i])>>
           /\ (\A k \in Puts : k >= i) => SlotOf(log[i]) = "document"
           /\ \A k \in Puts :
                k < i => (SlotRank(log[k]) < SlotRank(log[i]) /\ log[k].http = HTTP_OK)
           /\ log[i].http # HTTP_OK =>
                /\ i = Len(log)
                /\ Done
                /\ outcome = "InvalidStatusCodeException"
                /\ exc.status = log[i].http

\* With facematch and extra-document true the document was uploaded and the
\* PUT of the selfie was refused: the call has raised and the extra document
\* was not uploaded.
C24_Witness ==
    /\ call.op \in JobSendOps /\ Done
    /\ sub.facematch = FLAG_TRUE /\ sub.extra = FLAG_TRUE
    /\ Uploaded("document")
    /\ IsPut(log[Len(log)])
    /\ SlotOf(log[Len(log)]) = "selfie"
    /\ log[Len(log)].http = HTTP_UNAUTHORIZED
    /\ ~Uploaded("extra_document")
    /\ outcome = "InvalidStatusCodeException"

\* C25: in send_job and send_job_base64 the selfie is uploaded, and
\* facematch_file read, only when facematch is "true", the extra document is
\* uploaded, and extra_file read, only when extra-document is "true"; when
\* the send has returned (to the program or to create_and_wait_job) the
\* document has been uploaded, the selfie exactly when facematch is "true"
\* and the extra document exactly when extra-document is "true".
C25_SlotsFollowFlags ==
    (call.op \in JobSendOps /\ sub.res # None) =>
      /\ Uploaded("selfie") => sub.facematch = FLAG_TRUE
      /\ FileRead("facematch_file") <=> Uploaded("selfie")
      /\ Uploaded("extra_document") => sub.extra = FLAG_TRUE
      /\ FileRead("extra_file") <=> Uploaded("extra_document")
      /\ FileRead("file") <=> Uploaded("document")
      /\ (pc = "s_ret" \/ (Done /\ outcome = "returned")) =>
           /\ Uploaded("document")
           /\ Uploaded("selfie") <=> sub.facematch = FLAG_TRUE
           /\ Uploaded("extra_document") <=> sub.extra = FLAG_TRUE

\* A send_job with facematch true and extra-document not true has returned:
\* the document and the selfie were uploaded, the extra document was not.
C25_Witness ==
    /\ call.op \in JobSendOps /\ Done /\ outcome = "returned"
    /\ sub.facematch = FLAG_TRUE /\ sub.extra # FLAG_TRUE
    /\ Uploaded("document") /\ Uploaded("selfie") /\ ~Uploaded("extra_document")

\* What the claims say about a submission and the wait for it.
IsUploadStep(e) == IsSignedUrlPost(e) \/ IsPut(e)
WaitOps == {"wait_for_job_done", "wait_for_batch_done"}
SubmissionId == sub.res.id
PollsOnlySubmission ==
    /\ (call.op \in SendOps /\ sub.res # None) =>
         \E i \in 1..Len(log) :
           IsSignedUrlPost(log[i]) /\ log[i].http = HTTP_OK /\ log[i].body = sub.res
    /\ (call.op \in SendOps /\ Done /\ outcome = "returned") =>
         /\ result.id = SubmissionId
         /\ \A i \in Puts : log[i].url[2] = result.id
    /\ (facade = "create_and_wait_job" /\ call.op \in WaitOps) =>
         /\ call.op = "wait_for_job_done"
         /\ call.batch_id = SubmissionId /\ call.job_id = SubmissionId
         /\ j_args.batch_id = SubmissionId /\ j_args.job_id = SubmissionId
         /\ \A i \in 1..Len(log) :
              IsFetch(log[i]) => log[i].url = JobResultUrl(SubmissionId, SubmissionId)
    /\ (facade = "create_and_wait_batch" /\ call.op \in WaitOps) =>
         /\ call.op = "wait_for_batch_done"
         /\ call.batch_id = SubmissionId
         /\ \A k \in 1..Len(waited) : waited[k] = b_res.jobs[k].job_ksuid
         /\ \A i \in 1..Len(log) :
              IsFetch(log[i]) =>
                log[i].url = IF waited = <<>>
                             THEN BatchStatusUrl(SubmissionId)
                             ELSE JobResultUrl(SubmissionId, waited[Len(waited)])

\* C26: when the signed-URL request or an upload PUT of a send_* is answered
\* with another status than 200, the call, and the create_and_wait_* that
\* made it, ends there with InvalidStatusCodeException and has sent no status
\* or result request; create_and_wait_* starts its wait only after a
\* signed-URL request and uploads that were all answered 200.
C26_FailedSubmissionNeverPolled ==
    [][ /\ ( /\ call'.op \in SendOps
             /\ \E i \in 1..Len(log') : IsUploadStep(log'[i]) /\ log'[i].http # HTTP_OK )
           => /\ pc' = "done"
              /\ outcome' = "InvalidStatusCodeException"
              /\ exc'.status = log'[Len(log')].http
              /\ \A i \in 1..Len(log') : ~IsFetch(log'[i])
        /\ (call.op \in SendOps /\ call'.op \in WaitOps) =>
              /\ facade # "none"
              /\ sub.todo = <<>>
              /\ \E i \in 1..Len(log) : IsSignedUrlPost(log[i])
              /\ \E i \in 1..Len(log) : IsPut(log[i])
              /\ \A i \in 1..Len(log) : IsUploadStep(log[i]) => log[i].http = HTTP_OK
        /\ ( \E i \in 1..Len(log') : IsFetch(log'[i]) )
           => (call'.op \in SendOps \cup WaitOps => call'.op \in WaitOps)
      ]_vars

\* create_and_wait_job has ended with InvalidStatusCodeException on a refused
\* upload, with no status request sent.
C26_Witness ==
    /\ facade = "create_and_wait_job"
    /\ call.op \in SendOps /\ Done
    /\ outcome = "InvalidStatusCodeException"
    /\ IsPut(log[Len(log)])
    /\ log[Len(log)].http = HTTP_UNAUTHORIZED
    /\ \A i \in 1..Len(log) : ~IsFetch(log[i])

\* C27: the id of the signed-URL answer is the id of the submission from
\* then on: send_* uploads to the URLs of that id and returns it,
\* create_and_wait_job asks for the job result with it as batch id and job
\* id, create_and_wait_batch asks for the batch status with it, and its child
\* waits ask for the job results of that batch id and the listed job_ksuid.
C27_SubmissionIdUsedThroughout ==
    [][ /\ (sub.res # None /\ pc # "idle") => sub'.res = sub.res
        /\ PollsOnlySubmission'
      ]_vars

\* create_and_wait_batch, whose submission got the id "0uj", waits for a
\* job of that batch and has fetched its result.
C27_Witness ==
    /\ facade = "create_and_wait_batch"
    /\ BatchCall /\ call.wait_jobs
    /\ SubmissionId = "0uj"
    /\ waited # <<>>
    /\ \E i \in 1..Len(log) :
         IsFetch(log[i]) /\ log[i].url = JobResultUrl("0uj", waited[Len(waited)])

\* C30: an upload PUT carries no Authorization header and is made without
\* auto-authentication: the step sends no token request and leaves the token
\* and its expiry as they were, even with auto_refresh and an expired token;
\* every get and post to the OCR service carries the token the client holds
\* when it is sent.
C30_UploadsCarryNoToken ==
    [][ \A i \in 1..Len(NewEvs) :
          /\ IsPut(NewEvs[i]) =>
               /\ NewEvs[i].auth = NoAuth
               /\ Len(NewEvs) = 1
               /\ token' = token
               /\ expires_at' = expires_at
          /\ IsRequest(NewEvs[i]) =>
               /\ NewEvs[i].auth = token'
               /\ NewEvs[i].auth # NoAuth
      ]_vars

\* With auto_refresh an upload was made after the token had expired: it
\* carried no token and no token was requested for it, while the signed-URL
\* request before it carried the token.
C30_Witness ==
    /\ auto_refresh
    /\ call.op \in SendOps
    /\ Len(log) = 2
    /\ IsSignedUrlPost(log[1])
    /\ log[1].auth = token
    /\ IsPut(log[2])
    /\ log[2].at > expires_at
    /\ log[2].auth = NoAuth
    /\ log[2].http = HTTP_OK

\* The step a program makes when it calls wait_for_job_done(batch_id, job_id)
\* or wait_for_batch_done(batch_id, wait_jobs) in this state, with no time
\* passing before the call.
WaitCalled(op, batch_id, job_id, wait_jobs) ==
    /\ call' = [op |-> op, batch_id |-> batch_id, job_id |-> job_id,
                wait_jobs |-> wait_jobs, expires |-> 0]
    /\ now' = now
    /\ log' = <<>>
    /\ UNCHANGED <<skew, ops_frame, client, config, t_cond, ending, waited>>
    /\ IF op = "wait_for_job_done"
       THEN /\ j_args' = [batch_id |-> batch_id, job_id |-> job_id, caller |-> "top"]
            /\ j_start' = now
            /\ j_res' = None
            /\ pc' = "j_while"
            /\ UNCHANGED batch_frame
       ELSE /\ b_start' = now
            /\ b_res' = None
            /\ pc' = "b_while"
            /\ UNCHANGED <<idx, job_frame>>
\* The send_* of a create_and_wait_* has done all that a send_* that returns
\* does.
SendCompleted ==
    /\ call.op \in SendOps
    /\ sub.todo = <<>>
    /\ Puts # {}
    /\ \A i \in 1..Len(log) : IsUploadStep(log[i]) => log[i].http = HTTP_OK

\* C28: create_and_wait_job is send_job followed by wait_for_job_done(id, id)
\* and create_and_wait_batch is send_batch followed by
\* wait_for_batch_done(id, wait_jobs), with nothing of their own: the facade
\* goes on from its send_* exactly when a send_* called alone returns, the
\* step it then takes is the call of the wait with the id of the submission
\* (the timeout counted from that moment, no request of its own), an error of
\* the send_* ends the facade with that error, and the facade's result is the
\* wait's.
C28_FacadeIsSendThenWait ==
    [][ /\ pc = "s_ret" =>
             /\ facade # "none"
             /\ SendCompleted
             /\ IF facade = "create_and_wait_job"
                THEN /\ call.op = "send_job"
                     /\ WaitCalled("wait_for_job_done", SubmissionId, SubmissionId, FALSE)
                ELSE /\ call.op = "send_batch"
                     /\ WaitCalled("wait_for_batch_done", SubmissionId, "", call.wait_jobs)
        /\ (call.op \in SendOps /\ pc # "s_ret") => call'.op = call.op
        /\ (SendCompleted' /\ call'.op \in SendOps) =>
             IF facade' = "none"
             THEN pc' = "done" /\ outcome' = "returned"
             ELSE pc' = "s_ret" /\ outcome' = "running"
        /\ (facade' # "none" /\ pc' = "done") =>
             IF call'.op \in SendOps
             THEN /\ outcome' \in {"InvalidStatusCodeException", "AuthenticationFailure",
                                   "FileNotFoundError"}
                  /\ outcome' # "FileNotFoundError" => exc'.status = log'[Len(log')].http
             ELSE /\ call'.op = (IF facade' = "create_and_wait_job"
                                 THEN "wait_for_job_done" ELSE "wait_for_batch_done")
                  /\ outcome' = "returned" =>
                       result' = (IF facade' = "create_and_wait_job" THEN j_res' ELSE b_res')
      ]_vars

\* create_and_wait_job has returned the record of a wait whose timeout was
\* counted from the return of the submission, which had taken time.
C28_Witness ==
    /\ facade = "create_and_wait_job"
    /\ JobCall /\ Done /\ outcome = "returned"
    /\ j_start >= 1
    /\ result = j_res
    /\ result.status \in TerminalStatuses

\* What the claims say about a file that cannot be opened.
PathSendOps == {"send_job", "send_batch"}
OpenFailed == Done /\ outcome = "FileNotFoundError"

\* C31: when send_job or send_batch cannot open a file, the call raises and
\* sends no PUT for it nor for a later slot, so no PUT at all when the file is
\* the document; the signed-URL request was sent and answered 200 before the
\* file was opened, so the submission exists on the server when the call
\* fails; send_job_base64 and send_batch_base64 open no file.
C31_OpenFailsAfterSignedUrl ==
    OpenFailed =>
      /\ call.op \in PathSendOps
      /\ sub.res # None
      /\ sub.todo # <<>>
      /\ \E i \in 1..Len(log) :
           /\ IsSignedUrlPost(log[i])
           /\ log[i].http = HTTP_OK
           /\ log[i].body.id = SubmissionId
      /\ \A i \in Puts :
           /\ \A k \in 1..Len(sub.todo) : SlotOf(log[i]) # sub.todo[k]
           /\ log[i].http = HTTP_OK
      /\ Head(sub.todo) = "document" => Puts = {}
      /\ \A i \in 1..Len(log) : ~IsFetch(log[i])

\* send_batch could not open its document: the signed-URL request was answered
\* 200 with the id of the new batch and no PUT was sent.
C31_Witness ==
    /\ OpenFailed
    /\ call.op = "send_batch"
    /\ Len(log) = 1
    /\ IsSignedUrlPost(log[1])
    /\ log[1].http = HTTP_OK
    /\ log[1].body.id = BATCH_ID
    /\ Head(sub.todo) = "document"

\* C32: a wait that returns, returns a record that it has fetched and whose
\* status is "done" or "error": wait_for_job_done a job record,
\* wait_for_batch_done a batch record; never None and never a record with
\* another status, whatever the timeout and the readings of the clock.
C32_ReturnsFetchedTerminalRecord ==
    (Done /\ outcome = "returned" /\ call.op \in WaitOps) =>
      /\ result # None
      /\ result.kind = (IF JobCall THEN "job" ELSE "batch")
      /\ result.status \in TerminalStatuses
      /\ result = (IF JobCall THEN j_res ELSE b_res)

\* What the claims say about the end of a wait.
Sleeps == { i \in 1..Len(log) : IsSleep(log[i]) }
Fetches == { i \in 1..Len(log) : IsFetch(log[i]) }
\* The first entry of the loop iteration an entry belongs to: the iteration
\* is known by the reading of the clock at its loop condition.
IterStart(i) == CHOOSE k \in 1..i :
                  /\ log[k].checked = log[i].checked
                  /\ \A m \in 1..(k - 1) : log[m].checked # log[i].checked
\* The time the GET of entry k took, and the time the whole fetch before the
\* sleep of entry i took, its token request included.
GetDuration(k) == IF k < Len(log) THEN log[k + 1].at - log[k].at ELSE now - log[k].at
FetchDuration(i) == log[i].at - log[IterStart(i)].at
SingleTarget == call.op \in WaitOps /\ (LogOfJob \/ LogOfBatch)

InChildWait == BatchCall /\ j_args.caller = "batch" /\ InJobWait
PastDeadline(timeout_start) == now > timeout_start + timeout

\* C34: in wait_for_batch_done(wait_jobs=True) the status "error" of the
\* batch, or of a child, ends a wait as "done" does and no more: after the
\* batch loop the children are waited for from the first entry, after a child
\* the next entry of "jobs" is waited for, in list order, and after the last
\* the batch record is returned; none of these steps looks at a status.
C34_ErrorDoesNotCutChildWaits ==
    [][ (BatchCall /\ call.wait_jobs) =>
          /\ (pc = "b_status" /\ b_res.status = "error") => pc' = "b_end"
          /\ (pc = "b_end" /\ ~PastDeadline(b_start)) => (pc' = "b_for" /\ idx' = 1)
          /\ (pc = "j_status" /\ InChildWait /\ j_res.status = "error") => pc' = "j_end"
          /\ (pc = "j_end" /\ InChildWait /\ ~PastDeadline(j_start)) =>
               (pc' = "b_for" /\ idx' = idx + 1 /\ outcome' = "running")
          /\ (pc = "b_for" /\ b_res # None /\ idx <= Len(b_res.jobs)) =>
               /\ idx = Len(waited) + 1
               /\ pc' = "j_while"
               /\ j_args'.job_id = b_res.jobs[idx].job_ksuid
               /\ j_args'.batch_id = call.batch_id
               /\ waited' = Append(waited, b_res.jobs[idx].job_ksuid)
          /\ (pc = "b_for" /\ b_res # None /\ idx > Len(b_res.jobs)) =>
               /\ Len(waited) = Len(b_res.jobs)
               /\ outcome' = "returned"
               /\ result' = b_res
      ]_vars

\* The batch was observed "error" and its first child ended with "error":
\* the wait is about to go on with the second entry.
C34_Witness ==
    /\ BatchCall /\ call.wait_jobs
    /\ pc = "b_for"
    /\ b_res.status = "error"
    /\ j_res.status = "error"
    /\ idx = 2
    /\ Len(b_res.jobs) = 2
    /\ Len(waited) = 1

\* What the claims say about the token and the server.
NewTokenPosts == { i \in 1..Len(NewEvs) : IsTokenPost(NewEvs[i]) /\ NewEvs[i].http = HTTP_OK }
\* The time at which the answer to the token request of entry i of a step
\* was received: authenticate called on the client ends the step there, an
\* automatic re-authentication is followed at once by the request.
AnsweredAt(i) == IF i < Len(NewEvs) THEN NewEvs[i + 1].at ELSE now'
\* The expiry minutes the token request of a step was sent with.
MinutesSent == IF AuthenticateCalled THEN call'.expires ELSE expires
\* The token endpoint issues the token at some time between the moment the
\* request is sent and the moment the answer is received, and regards it as
\* expired `minutes` later.
IssueTimes(i) == NewEvs[i].at .. AnsweredAt(i)
ServerExpiry(issued, minutes) == issued + minutes * SecondsPerMinute

\* C35: the expires_at that authenticate stores is not later than the time
\* the token endpoint issued the token plus the expiry minutes, whenever in
\* the exchange the token was issued; so the request that follows an
\* automatic re-authentication is not sent with a token that has expired on
\* the server.
C35_ExpiryNotAfterServerExpiry ==
    [][ \A i \in NewTokenPosts :
          \A issued \in IssueTimes(i) :
            /\ expires_at' <= ServerExpiry(issued, MinutesSent)
            /\ \A k \in (i + 1)..Len(NewEvs) :
                 (auto_refresh /\ IsRequest(NewEvs[k])) =>
                   NewEvs[k].at <= ServerExpiry(issued, MinutesSent)
      ]_vars

\* The attributes of the client that the constructor sets and the program
\* configures.
Configuration == <<auto_refresh, timeout, interval, expires>>

\* C36: authenticate changes token and expires_at and nothing else of the
\* client, also when it is called with other expiry minutes than the
\* constructor was given: the automatic re-authentication that follows is
\* sent with the constructor's minutes; no step of any operation changes
\* auto_refresh, timeout, interval or the stored expiry minutes.
C36_AuthenticateStoresOnlyCredential ==
    [][ /\ Configuration' = Configuration
        /\ AuthenticateCalled =>
             /\ UNCHANGED <<batch_frame, job_frame, ops_frame, waited, srv_jobs>>
             /\ NewEvs[1].http = HTTP_OK =>
                  expires_at' = now' + call'.expires * SecondsPerMinute
        /\ (~AuthenticateCalled /\ NewTokenPosts # {}) =>
             /\ auto_refresh
             /\ \A i \in NewTokenPosts :
                  expires_at' = AnsweredAt(i) + expires * SecondsPerMinute
      ]_vars

\* A client constructed with token_expires=60 on which authenticate was called
\* with expires=0 has re-authenticated by itself: the new token expires 60
\* minutes after it was received.
C36_Witness ==
    /\ auto_refresh
    /\ expires = DEFAULT_EXPIRATION_TIME
    /\ token = 2
    /\ call.op # "authenticate"
    /\ Len(log) = 2
    /\ IsTokenPost(log[1]) /\ log[1].http = HTTP_OK
    /\ IsRequest(log[2])
    /\ log[1].at > 0
    /\ expires_at = log[2].at + DEFAULT_EXPIRATION_TIME * SecondsPerMinute

\* C37: with auto_refresh no get or post to the OCR service carries the
\* empty token of the constructor: a token request answered 200 comes before
\* each of them, and they carry a token that the token endpoint issued.
C37_NeverSendsEmptyToken ==
    auto_refresh =>
      \A i \in 1..Len(log) :
        IsRequest(log[i]) =>
          /\ log[i].auth # EmptyToken
          /\ token # EmptyToken

\* What the claims say about a re-authentication that fails.
IsFailedTokenPost(e) == IsTokenPost(e) /\ e.http # HTTP_OK
\* The last call on the client ended on the failed token request of an
\* automatic re-authentication.
ReauthFailed ==
    /\ call.op \notin {"none", "authenticate"}
    /\ Len(log) > 0
    /\ IsFailedTokenPost(log[Len(log)])
OutboundCall == pc = "idle" /\ ~AuthenticateCalled /\ NewEvs # <<>>

\* C38: when the token request of an automatic re-authentication is answered
\* with another status than 200, the request it was made for is not sent, the
\* call ends with InvalidStatusCodeException(status, 200), a wait ends there
\* without a sleep or another poll, and token and expires_at are what they
\* were; the next call that sends a request to the OCR service sends the
\* token request again first.
C38_FailedReauthAbortsAndIsRetried ==
    [][ /\ (~AuthenticateCalled /\ \E i \in 1..Len(NewEvs) : IsFailedTokenPost(NewEvs[i])) =>
             /\ Len(NewEvs) = 1
             /\ auto_refresh
             /\ NewEvs[1].at > expires_at
             /\ UNCHANGED <<token, expires_at, j_res, b_res, waited>>
             /\ pc' = "done"
             /\ outcome' = "InvalidStatusCodeException"
             /\ exc'.status = NewEvs[1].http
             /\ exc'.expected = HTTP_OK
             /\ pc # "idle" => call' = call
        /\ (ReauthFailed /\ OutboundCall) =>
             /\ IsTokenPost(NewEvs[1])
             /\ NewEvs[1].at > expires_at
             /\ NewEvs[1].http = HTTP_OK =>
                  /\ Len(NewEvs) = 2
                  /\ IsRequest(NewEvs[2])
                  /\ NewEvs[2].auth = token'
                  /\ token' # token
        /\ (ReauthFailed /\ pc = "done") => UNCHANGED <<token, expires_at, now>>
      ]_vars

\* A wait, made with the token of an authenticate call that has expired, was
\* ended by a failed re-authentication before its poll; the token is still
\* that one, and the program has handled the exception and is about to make
\* its next call.
C38_Witness ==
    /\ pc = "idle"
    /\ ReauthFailed
    /\ call.op = "wait_for_job_done"
    /\ \A i \in 1..Len(log) : ~IsFetch(log[i])
    /\ token = 1
    /\ j_res = None
    /\ now > expires_at

====
